---- MODULE Spec2Model ----
(***************************************************************************)
(* The filter-and-aggregate pipeline of the Global AI Content Impact       *)
(* dashboard (src/app.py).  The script is re-run from top to bottom on     *)
(* every widget change; one action of this module is one such run.         *)
(*                                                                         *)
(* A DataFrame is a sequence of <<index label, row>> entries, a row being  *)
(* a function from column names to cell values.  Numbers produced by       *)
(* pandas arithmetic are exact rationals or NaN (see Rat and NaN): the     *)
(* dataset's metric cells are read as exact numbers, so that a mean is the *)
(* exact quotient; binary rounding of the last bits is not modelled.       *)
(***************************************************************************)
EXTENDS Integers, Sequences, FiniteSets, TLC

\* Largest number of rows of a dataset file that is explored.
MaxRows == 3

(***************************************************************************)
(* Column names.                                                           *)
(***************************************************************************)
\* app.py:173-178, the four numeric metric columns, in the script's order.
metrics ==
    << "AI Adoption Rate (%)", "Job Loss Due to AI (%)",
       "Revenue Increase Due to AI (%)", "Human-AI Collaboration Rate (%)" >>

\* app.py:245, the radar chart's categories.
categories ==
    << "AI Adoption Rate (%)", "Job Loss Due to AI (%)",
       "Revenue Increase Due to AI (%)", "Human-AI Collaboration Rate (%)" >>

(***************************************************************************)
(* The input: rows a dataset file may hold.  The first three are the       *)
(* records of the specification's filter scenario, given an industry, a    *)
(* tool and a regulation status each.                                      *)
(***************************************************************************)
CsvRow(y, c, ind, tool, reg, a, b, r, h) ==
    ("Year" :> y) @@ ("Country" :> c) @@ ("Industry" :> ind) @@
    ("Top AI Tools Used" :> tool) @@ ("Regulation Status" :> reg) @@
    ("AI Adoption Rate (%)" :> a) @@ ("Job Loss Due to AI (%)" :> b) @@
    ("Revenue Increase Due to AI (%)" :> r) @@
    ("Human-AI Collaboration Rate (%)" :> h)

RowPool ==
    { CsvRow(2020, "USA", "Media", "ChatGPT", "Strict",  10, 5,  20, 50),
      CsvRow(2021, "USA", "Legal", "Bard",    "Strict",  20, 5,  30, 60),
      CsvRow(2020, "UK",  "Media", "Bard",    "Lenient", 15, 10, 25, 40) }

\* The dataset files: every non-empty sequence of at most MaxRows pool rows
\* (a row may repeat).
CsvFiles == UNION { [1..n -> RowPool] : n \in 1..MaxRows }

\* Values a caller of the filter expression may pass, whether or not a
\* given dataset holds them.
YearUniverse      == { r["Year"] : r \in RowPool }
CountryUniverse   == { r["Country"] : r \in RowPool }
IndustryUniverse  == { r["Industry"] : r \in RowPool }
ToolUniverse      == { r["Top AI Tools Used"] : r \in RowPool }
RegUniverse       == { r["Regulation Status"] : r \in RowPool }

\* Python's ordering of the strings that occur in the model (str.__lt__:
\* code point order), as used by sorted() and by groupby's sorted keys.
StringOrder ==
    << "Bard", "ChatGPT", "Legal", "Lenient", "Media", "Strict", "UK", "USA" >>

StrPos(s) == CHOOSE i \in 1..Len(StringOrder) : StringOrder[i] = s

\* Python's < on two cells of column col: the Year column holds ints, the
\* other key columns hold strings.
CellLess(col, a, b) ==
    IF col = "Year" THEN a < b ELSE StrPos(a) < StrPos(b)

(***************************************************************************)
(* Numbers: an exact rational num/den in lowest terms, or NaN.             *)
(***************************************************************************)
Abs(x) == IF x < 0 THEN -x ELSE x

RECURSIVE Gcd(_, _)
Gcd(a, b) == IF b = 0 THEN a ELSE Gcd(b, a % b)

NaN == [nan |-> TRUE, num |-> 0, den |-> 1]

Rat(n, d) ==
    LET s == IF d < 0 THEN -1 ELSE 1
        g == Gcd(Abs(n), Abs(d))
    IN [nan |-> FALSE, num |-> (s * n) \div g, den |-> (s * d) \div g]

Num(n) == [nan |-> FALSE, num |-> n, den |-> 1]

\* float subtraction: NaN if either operand is NaN.
Sub(a, b) ==
    IF a.nan \/ b.nan THEN NaN
    ELSE Rat(a.num * b.den - b.num * a.den, a.den * b.den)

(***************************************************************************)
(* pandas Series: a sequence of cells.                                     *)
(***************************************************************************)
\* frame[col]
Column(frame, col) == [i \in 1..Len(frame) |-> frame[i].row[col]]

RECURSIVE SeqSum(_)
SeqSum(s) == IF Len(s) = 0 THEN 0 ELSE Head(s) + SeqSum(Tail(s))

\* Series.mean(): NaN for an empty Series.
Mean(s) == IF Len(s) = 0 THEN NaN ELSE Rat(SeqSum(s), Len(s))

\* Series.max() / Series.min(): NaN for an empty Series.
SeriesMax(s) ==
    IF Len(s) = 0 THEN NaN
    ELSE Num(CHOOSE x \in { s[i] : i \in 1..Len(s) } :
                 \A j \in 1..Len(s) : s[j] <= x)

SeriesMin(s) ==
    IF Len(s) = 0 THEN NaN
    ELSE Num(CHOOSE x \in { s[i] : i \in 1..Len(s) } :
                 \A j \in 1..Len(s) : x <= s[j])

\* Series.unique() as a set, and sorted(...) of the distinct cells S of
\* column col.
Unique(s) == { s[i] : i \in 1..Len(s) }

RECURSIVE sorted(_, _)
sorted(S, col) ==
    IF S = {} THEN << >>
    ELSE LET m == CHOOSE x \in S : \A y \in S : ~CellLess(col, y, x)
         IN << m >> \o sorted(S \ {m}, col)

\* list[:n]
Take(s, n) == SubSeq(s, 1, IF Len(s) < n THEN Len(s) ELSE n)

(***************************************************************************)
(* The filter expression, app.py:107-114.                                  *)
(***************************************************************************)
\* A slip: the right end excluded (inclusive="left").
betweenRightOpen(s, left, right) ==
    [i \in 1..Len(s) |-> left <= s[i] /\ s[i] < right]

\* A slip: the ends put in order before comparing.
betweenSwapped(s, left, right) ==
    [i \in 1..Len(s) |->
        IF left <= right THEN left <= s[i] /\ s[i] <= right
        ELSE right <= s[i] /\ s[i] <= left]

\* Series.between(left, right), inclusive="both".
between(s, left, right) ==
    [i \in 1..Len(s) |-> left <= s[i] /\ s[i] <= right]

\* A slip: an empty selection taken to mean "all".
isinOrAll(s, values) == [i \in 1..Len(s) |-> values = {} \/ s[i] \in values]

\* Series.isin(values).
isin(s, values) == [i \in 1..Len(s) |-> s[i] \in values]

\* mask & mask
MaskAnd(a, b) == [i \in 1..Len(a) |-> a[i] /\ b[i]]

\* A slip: the selected entries collected in reverse.
RECURSIVE BoolIndexReversed(_, _)
BoolIndexReversed(frame, mask) ==
    IF Len(frame) = 0 THEN << >>
    ELSE LET rest == BoolIndexReversed(Tail(frame), Tail(mask))
         IN IF Head(mask) THEN rest \o << Head(frame) >> ELSE rest

\* frame[mask]: the entries whose mask cell is True, in the frame's order,
\* each keeping its index label.
RECURSIVE BoolIndex(_, _)
BoolIndex(frame, mask) ==
    IF Len(frame) = 0 THEN << >>
    ELSE LET rest == BoolIndex(Tail(frame), Tail(mask))
         IN IF Head(mask) THEN << Head(frame) >> \o rest ELSE rest

FilterMask(d, yr, sc, si, st, sr) ==
    MaskAnd(MaskAnd(MaskAnd(MaskAnd(
        between(Column(d, "Year"), yr[1], yr[2]),
        isin(Column(d, "Country"), sc)),
        isin(Column(d, "Industry"), si)),
        isin(Column(d, "Top AI Tools Used"), st)),
        isin(Column(d, "Regulation Status"), sr))

FilteredDf(d, yr, sc, si, st, sr) ==
    BoolIndex(d, FilterMask(d, yr, sc, si, st, sr))

(***************************************************************************)
(* The KPI cards, app.py:116-150.                                          *)
(***************************************************************************)
\* format(x, ".2f"): two decimals, round-half-even on the exact value;
\* "nan" for NaN.
Fmt2(x) ==
    IF x.nan THEN "nan"
    ELSE LET n == 100 * Abs(x.num)
             q == n \div x.den
             r == n % x.den
             cents == IF 2 * r > x.den THEN q + 1
                      ELSE IF 2 * r = x.den THEN q + (q % 2)
                      ELSE q
             frac == cents % 100
         IN (IF x.num < 0 THEN "-" ELSE "") \o ToString(cents \div 100)
            \o "." \o (IF frac < 10 THEN "0" ELSE "") \o ToString(frac)

\* st.metric(label, value, delta) of a card that shows "from max".
MetricFromMax(label, view, col) ==
    LET avg == Mean(Column(view, col))
    IN [label |-> label,
        value |-> Fmt2(avg) \o "%",
        delta |-> Fmt2(Sub(SeriesMax(Column(view, col)), avg)) \o "% from max"]

\* st.metric(label, value, delta) of a card that shows "from min".
MetricFromMin(label, view, col) ==
    LET avg == Mean(Column(view, col))
    IN [label |-> label,
        value |-> Fmt2(avg) \o "%",
        delta |-> Fmt2(Sub(avg, SeriesMin(Column(view, col)))) \o "% from min"]

MetricCards(view) ==
    << MetricFromMax("AI Adoption Rate", view, "AI Adoption Rate (%)"),
       MetricFromMin("Job Loss Due to AI", view, "Job Loss Due to AI (%)"),
       MetricFromMax("Revenue Increase", view, "Revenue Increase Due to AI (%)"),
       MetricFromMin("Human-AI Collaboration", view,
                     "Human-AI Collaboration Rate (%)") >>

(***************************************************************************)
(* Grouped means: frame.groupby(key)[cols].mean().reset_index().           *)
(***************************************************************************)
\* A slip: a group for every category of the key column (a categorical
\* key with observed=False), present in the frame or not.
GroupKeysAllCategories(frame, key) == sorted({ r[key] : r \in RowPool }, key)

\* The group keys groupby makes: the values of the key column that occur in
\* the frame (the columns are plain object/int columns, so no unobserved
\* category gets a group), sorted (sort=True).
GroupKeys(frame, key) == sorted(Unique(Column(frame, key)), key)

\* One row per group key, holding the key and the mean of each column of
\* `cols` over the group's rows; reset_index() numbers the rows from 0.
GroupByMean(frame, key, cols) ==
    LET keys == GroupKeys(frame, key)
        grp(k) == BoolIndex(frame, isin(Column(frame, key), {k}))
    IN [i \in 1..Len(keys) |->
          [idx |-> i - 1,
           row |-> (key :> keys[i]) @@
                   [c \in cols |-> Mean(Column(grp(keys[i]), c))]]]

SeqRange(s) == { s[i] : i \in 1..Len(s) }

\* app.py:180-193, the four go.Scatter traces of the trend grid.
FigTrend(view) ==
    [i \in 1..Len(metrics) |->
        LET metric == metrics[i]
            yearly_data == GroupByMean(view, "Year", {metric})
        IN [x |-> Column(yearly_data, "Year"),
            y |-> Column(yearly_data, metric),
            name |-> metric,
            row |-> ((i - 1) \div 2) + 1,
            col |-> ((i - 1) % 2) + 1]]

\* app.py:217-221
CountryMetrics(view) ==
    GroupByMean(view, "Country",
                { "AI Adoption Rate (%)", "Job Loss Due to AI (%)",
                  "Revenue Increase Due to AI (%)" })

\* app.py:237-242
IndustryMetrics(view) == GroupByMean(view, "Industry", SeqRange(metrics))

\* app.py:298-301
ToolAnalysis(view) ==
    GroupByMean(view, "Top AI Tools Used",
                { "AI Adoption Rate (%)", "Revenue Increase Due to AI (%)" })

(***************************************************************************)
(* The radar chart, app.py:244-255.                                        *)
(***************************************************************************)
\* A slip: the loop left open.
RadarTraceOpen(row) ==
    [r     |-> [i \in 1..Len(categories) |-> row[categories[i]]],
     theta |-> categories,
     name  |-> row["Industry"]]

\* One go.Scatterpolar trace of a row of industry_metrics.
RadarTrace(row) ==
    LET values == [i \in 1..Len(categories) |-> row[categories[i]]]
    IN [r     |-> values \o SubSeq(values, 1, 1),
        theta |-> categories \o << categories[1] >>,
        name  |-> row["Industry"]]

FigIndustry(industry_metrics_) ==
    [i \in 1..Len(industry_metrics_) |-> RadarTrace(industry_metrics_[i].row)]

(***************************************************************************)
(* DataFrame.corr(): Pearson, min_periods = 1.                             *)
(*                                                                         *)
(* A cell is NaN or the exact value sgn * sqrt(num/den), num/den in lowest *)
(* terms: with n rows, cov = n*Sxy - Sx*Sy, vx = n*Sxx - Sx^2 and          *)
(* vy = n*Syy - Sy^2, pandas returns cov / sqrt(vx * vy), and NaN when no  *)
(* row is present or the divisor is 0.                                     *)
(***************************************************************************)
CorrNaN == [nan |-> TRUE, sgn |-> 0, num |-> 0, den |-> 1]

SeqMul(a, b) == [i \in 1..Len(a) |-> a[i] * b[i]]

\* A slip: an undefined cell filled with 0.
PearsonZeroFill(x, y) ==
    LET n   == Len(x)
        cov == n * SeqSum(SeqMul(x, y)) - SeqSum(x) * SeqSum(y)
        vx  == n * SeqSum(SeqMul(x, x)) - SeqSum(x) * SeqSum(x)
        vy  == n * SeqSum(SeqMul(y, y)) - SeqSum(y) * SeqSum(y)
    IN IF n < 1 \/ vx * vy = 0
       THEN [nan |-> FALSE, sgn |-> 0, num |-> 0, den |-> 1]
       ELSE LET q == Rat(cov * cov, vx * vy)
            IN [nan |-> FALSE,
                sgn |-> IF cov > 0 THEN 1 ELSE IF cov < 0 THEN -1 ELSE 0,
                num |-> q.num, den |-> q.den]

Pearson(x, y) ==
    LET n   == Len(x)
        cov == n * SeqSum(SeqMul(x, y)) - SeqSum(x) * SeqSum(y)
        vx  == n * SeqSum(SeqMul(x, x)) - SeqSum(x) * SeqSum(x)
        vy  == n * SeqSum(SeqMul(y, y)) - SeqSum(y) * SeqSum(y)
    IN IF n < 1 THEN CorrNaN
       ELSE IF vx * vy = 0 THEN CorrNaN
       ELSE LET q == Rat(cov * cov, vx * vy)
            IN [nan |-> FALSE,
                sgn |-> IF cov > 0 THEN 1 ELSE IF cov < 0 THEN -1 ELSE 0,
                num |-> q.num, den |-> q.den]

\* app.py:282-287
CorrMatrix(view) ==
    [m1 \in SeqRange(metrics) |->
        [m2 \in SeqRange(metrics) |->
            Pearson(Column(view, m1), Column(view, m2))]]

(***************************************************************************)
(* The state of a session between two runs of the script.                  *)
(***************************************************************************)
VARIABLES
    load_data_cache,      \* st.cache_data's stored result of load_data()
    df,                   \* app.py:51
    year_slider,          \* the slider's min_value and max_value
    countries, industries, tools, reg_status,     \* the multiselects' options
    year_range, selected_countries, selected_industries,
    selected_tools, selected_reg,                 \* the widgets' values
    filtered_df,          \* app.py:108
    metric_cards,         \* the four st.metric calls
    fig_trend, country_metrics, industry_metrics, fig_industry,
    corr_matrix, tool_analysis,
    data_explorer         \* the rows handed to st.dataframe

vars ==
    << load_data_cache, df, year_slider, countries, industries, tools,
       reg_status, year_range, selected_countries, selected_industries,
       selected_tools, selected_reg, filtered_df, metric_cards, fig_trend,
       country_metrics, industry_metrics, fig_industry, corr_matrix,
       tool_analysis, data_explorer >>

\* pd.read_csv: the file's rows under a RangeIndex starting at 0.
read_csv(file) == [i \in 1..Len(file) |-> [idx |-> i - 1, row |-> file[i]]]

\* load_data() on a cache hit: the stored frame.
load_data == load_data_cache

\* int(df['Year'].min()), int(df['Year'].max())
YearSlider(d) ==
    << SeriesMin(Column(d, "Year")).num, SeriesMax(Column(d, "Year")).num >>

\* What one run of the script binds besides the widgets' values, given the
\* frame d that load_data() returned, the filtered frame view computed from
\* it (app.py:108) and the industry summary ind computed from the view
\* (app.py:237).
Script(d, view, ind) ==
       [df                  |-> d,
        year_slider         |-> YearSlider(d),
        countries           |-> sorted(Unique(Column(d, "Country")), "Country"),
        industries          |-> sorted(Unique(Column(d, "Industry")), "Industry"),
        tools               |-> sorted(Unique(Column(d, "Top AI Tools Used")), "Top AI Tools Used"),
        reg_status          |-> sorted(Unique(Column(d, "Regulation Status")), "Regulation Status"),
        filtered_df         |-> view,
        metric_cards        |-> MetricCards(view),
        fig_trend           |-> FigTrend(view),
        country_metrics     |-> CountryMetrics(view),
        industry_metrics    |-> ind,
        fig_industry        |-> FigIndustry(ind),
        corr_matrix         |-> CorrMatrix(view),
        tool_analysis       |-> ToolAnalysis(view),
        data_explorer       |-> view]

\* The state a first run leaves, the widgets returning yr, sc, si, st, sr.
FirstRun(file, yr, sc, si, st, sr) ==
    \E view \in { FilteredDf(read_csv(file), yr, sc, si, st, sr) } :
    \E s \in { Script(read_csv(file), view, IndustryMetrics(view)) } :
       /\ load_data_cache = s.df
       /\ df = s.df
       /\ year_slider = s.year_slider
       /\ countries = s.countries
       /\ industries = s.industries
       /\ tools = s.tools
       /\ reg_status = s.reg_status
       /\ year_range = yr
       /\ selected_countries = sc
       /\ selected_industries = si
       /\ selected_tools = st
       /\ selected_reg = sr
       /\ filtered_df = s.filtered_df
       /\ metric_cards = s.metric_cards
       /\ fig_trend = s.fig_trend
       /\ country_metrics = s.country_metrics
       /\ industry_metrics = s.industry_metrics
       /\ fig_industry = s.fig_industry
       /\ corr_matrix = s.corr_matrix
       /\ tool_analysis = s.tool_analysis
       /\ data_explorer = s.data_explorer

\* The end of a later run: the session holds the widgets' values and what
\* the script bound; the cache is not written on a hit.
Bind(s, yr, sc, si, st, sr) ==
    /\ UNCHANGED load_data_cache
    /\ df' = s.df
    /\ year_slider' = s.year_slider
    /\ countries' = s.countries
    /\ industries' = s.industries
    /\ tools' = s.tools
    /\ reg_status' = s.reg_status
    /\ year_range' = yr
    /\ selected_countries' = sc
    /\ selected_industries' = si
    /\ selected_tools' = st
    /\ selected_reg' = sr
    /\ filtered_df' = s.filtered_df
    /\ metric_cards' = s.metric_cards
    /\ fig_trend' = s.fig_trend
    /\ country_metrics' = s.country_metrics
    /\ industry_metrics' = s.industry_metrics
    /\ fig_industry' = s.fig_industry
    /\ corr_matrix' = s.corr_matrix
    /\ tool_analysis' = s.tool_analysis
    /\ data_explorer' = s.data_explorer

\* A slip that filters the frame the previous run displayed instead of the
\* loaded one (an incremental update).
RerunFromPreviousView(yr, sc, si, st, sr) ==
    \E view \in { FilteredDf(filtered_df, yr, sc, si, st, sr) } :
    \E s \in { Script(load_data, view, IndustryMetrics(view)) } :
        Bind(s, yr, sc, si, st, sr)

\* A slip that assigns the filtered frame to df itself (df = df[...]).
RerunOverwritesDf(yr, sc, si, st, sr) ==
    \E view \in { FilteredDf(load_data, yr, sc, si, st, sr) } :
    \E s \in { Script(load_data, view, IndustryMetrics(view)) } :
        Bind([s EXCEPT !.df = view], yr, sc, si, st, sr)

\* A widget changed: the script runs again, top to bottom, the widgets now
\* returning yr, sc, si, st, sr.
Rerun(yr, sc, si, st, sr) ==
    \E view \in { FilteredDf(load_data, yr, sc, si, st, sr) } :
    \E s \in { Script(load_data, view, IndustryMetrics(view)) } :
        Bind(s, yr, sc, si, st, sr)

(***************************************************************************)
(* The dashboard: the widgets only return what they offer.                 *)
(***************************************************************************)
\* The first run: the slider spans the dataset's years, the multiselects
\* hold their defaults (app.py:60-105).
Init ==
    \E file \in CsvFiles :
        LET d == read_csv(file)
            opt(col) == sorted(Unique(Column(d, col)), col)
        IN FirstRun(file, YearSlider(d),
                    SeqRange(Take(opt("Country"), 5)),
                    SeqRange(Take(opt("Industry"), 3)),
                    SeqRange(opt("Top AI Tools Used")),
                    SeqRange(opt("Regulation Status")))

\* One interaction with the range slider moves one of its two handles: the
\* slider returns a pair lo <= hi within its bounds.
SliderMoves(yr, bounds) ==
    ({ << lo, yr[2] >> : lo \in bounds[1]..yr[2] } \cup
     { << yr[1], hi >> : hi \in yr[1]..bounds[2] }) \ { yr }

\* One interaction with a multiselect adds an option, removes a selected
\* one or clears the selection: it only returns options it offers.
MultiselectMoves(selected, options) ==
    ({ selected \cup {o} : o \in SeqRange(options) } \cup
     { selected \ {o} : o \in selected } \cup { {} }) \ { selected }

ChangeYearRange ==
    \E yr \in SliderMoves(year_range, year_slider) :
        Rerun(yr, selected_countries, selected_industries,
              selected_tools, selected_reg)

ChangeCountries ==
    \E sc \in MultiselectMoves(selected_countries, countries) :
        Rerun(year_range, sc, selected_industries, selected_tools,
              selected_reg)

ChangeIndustries ==
    \E si \in MultiselectMoves(selected_industries, industries) :
        Rerun(year_range, selected_countries, si, selected_tools,
              selected_reg)

ChangeTools ==
    \E st \in MultiselectMoves(selected_tools, tools) :
        Rerun(year_range, selected_countries, selected_industries, st,
              selected_reg)

ChangeReg ==
    \E sr \in MultiselectMoves(selected_reg, reg_status) :
        Rerun(year_range, selected_countries, selected_industries,
              selected_tools, sr)

Next ==
    \/ ChangeYearRange
    \/ ChangeCountries
    \/ ChangeIndustries
    \/ ChangeTools
    \/ ChangeReg

Spec == Init /\ [][Next]_vars

(***************************************************************************)
(* The filter expression on its own: any dataset file of at most           *)
(* MaxRowsApply rows and any criteria over the universes, whether or not   *)
(* a widget could return them (a range with min > max, a value that no row *)
(* holds).                                                                 *)
(***************************************************************************)
MaxRowsApply == 2

CsvFilesApply == UNION { [1..n -> RowPool] : n \in 1..MaxRowsApply }

InitApply ==
    \E file \in CsvFilesApply :
    \E yr \in YearUniverse \X YearUniverse :
    \E sc \in SUBSET CountryUniverse :
    \E si \in SUBSET IndustryUniverse :
    \E st \in SUBSET ToolUniverse :
    \E sr \in SUBSET RegUniverse :
        FirstRun(file, yr, sc, si, st, sr)

ApplyYearRange ==
    \E yr \in YearUniverse \X YearUniverse :
        /\ yr # year_range
        /\ Rerun(yr, selected_countries, selected_industries,
                 selected_tools, selected_reg)

ApplyCountries ==
    \E sc \in SUBSET CountryUniverse :
        /\ sc # selected_countries
        /\ Rerun(year_range, sc, selected_industries, selected_tools,
                 selected_reg)

ApplyIndustries ==
    \E si \in SUBSET IndustryUniverse :
        /\ si # selected_industries
        /\ Rerun(year_range, selected_countries, si, selected_tools,
                 selected_reg)

ApplyTools ==
    \E st \in SUBSET ToolUniverse :
        /\ st # selected_tools
        /\ Rerun(year_range, selected_countries, selected_industries, st,
                 selected_reg)

ApplyReg ==
    \E sr \in SUBSET RegUniverse :
        /\ sr # selected_reg
        /\ Rerun(year_range, selected_countries, selected_industries,
                 selected_tools, sr)

NextApply ==
    \/ ApplyYearRange
    \/ ApplyCountries
    \/ ApplyIndustries
    \/ ApplyTools
    \/ ApplyReg

SpecApply == InitApply /\ [][NextApply]_vars

(***************************************************************************)
(* Properties.                                                             *)
(***************************************************************************)
\* A record of the dataset satisfies the current criteria.
Matches(r) ==
    /\ year_range[1] <= r["Year"]
    /\ r["Year"] <= year_range[2]
    /\ r["Country"] \in selected_countries
    /\ r["Industry"] \in selected_industries
    /\ r["Top AI Tools Used"] \in selected_tools
    /\ r["Regulation Status"] \in selected_reg

AllMetrics == SeqRange(metrics)

\* C1: the filtered view holds an entry of the dataset if and only if its
\* year lies in the inclusive year range and its country, industry, tool
\* and regulation status are each among the selected values; the view
\* holds nothing else, and selected values that no record holds match
\* nothing.
C1_FilterMembership ==
    /\ \A i \in 1..Len(df) :
          (\E k \in 1..Len(filtered_df) : filtered_df[k] = df[i])
             <=> Matches(df[i].row)
    /\ \A k \in 1..Len(filtered_df) :
          \E i \in 1..Len(df) : filtered_df[k] = df[i]

\* A selected country that no record holds, and a dataset of which the
\* second record passes and the first does not.
C1_Witness ==
    /\ Len(df) = 2
    /\ Len(filtered_df) = 1
    /\ filtered_df[1] = df[2]
    /\ \E c \in selected_countries : c \notin Unique(Column(df, "Country"))

\* C2: whenever one of the four selections is empty the filtered view is
\* empty, whatever the other selections and the year range are.
C2_EmptySelectionEmptyView ==
    (\/ selected_countries = {}
     \/ selected_industries = {}
     \/ selected_tools = {}
     \/ selected_reg = {}) => filtered_df = << >>

\* Only the regulation statuses are deselected, on a three-row dataset
\* all of whose rows pass every other criterion.
C2_Witness ==
    /\ Len(df) = 3
    /\ selected_reg = {}
    /\ year_range = year_slider
    /\ selected_countries = SeqRange(countries)
    /\ selected_industries = SeqRange(industries)
    /\ selected_tools = SeqRange(tools)
    /\ filtered_df = << >>

\* C3: over an empty filtered view no KPI card shows a NaN formatted as a
\* number, neither as its value nor as its "from max" / "from min" delta.
C3_EmptyViewShowsNoNaN ==
    filtered_df = << >> =>
        \A k \in 1..Len(metric_cards) :
            /\ metric_cards[k].value # "nan%"
            /\ metric_cards[k].delta \notin
                   { "nan% from max", "nan% from min" }

\* C4: the view's entries are entries of the dataset under their own index
\* labels, and the labels increase strictly along the view: two records
\* keep their relative order and none occurs more often than in the
\* dataset.
C4_OrderPreserved ==
    /\ \A k \in 1..Len(filtered_df) :
          /\ filtered_df[k].idx + 1 \in 1..Len(df)
          /\ filtered_df[k] = df[filtered_df[k].idx + 1]
    /\ \A i, j \in 1..Len(filtered_df) :
          i < j => filtered_df[i].idx < filtered_df[j].idx

\* The first and the last of three rows pass, the middle one does not, and
\* the two differ.
C4_Witness ==
    /\ Len(df) = 3
    /\ Len(filtered_df) = 2
    /\ filtered_df[1].idx = 0
    /\ filtered_df[2].idx = 2
    /\ filtered_df[1].row # filtered_df[2].row

\* The keys of a grouped frame are the distinct values of the key column
\* in the view, each once.
KeysAreThoseOf(keys, col) ==
    /\ SeqRange(keys) = Unique(Column(filtered_df, col))
    /\ Len(keys) = Cardinality(Unique(Column(filtered_df, col)))

\* C5: every grouped mean (by year, country, industry, tool) has exactly
\* one row per distinct key value present in the view, so over an empty
\* view every grouped mean is empty.
C5_GroupKeys ==
    /\ \A t \in 1..Len(fig_trend) :
          /\ KeysAreThoseOf(fig_trend[t].x, "Year")
          /\ Len(fig_trend[t].y) = Len(fig_trend[t].x)
    /\ Len(fig_trend) = 4
    /\ KeysAreThoseOf(Column(country_metrics, "Country"), "Country")
    /\ KeysAreThoseOf(Column(industry_metrics, "Industry"), "Industry")
    /\ KeysAreThoseOf(Column(tool_analysis, "Top AI Tools Used"),
                      "Top AI Tools Used")
    /\ filtered_df = << >> =>
          /\ \A t \in 1..Len(fig_trend) :
                fig_trend[t].x = << >> /\ fig_trend[t].y = << >>
          /\ country_metrics = << >>
          /\ industry_metrics = << >>
          /\ tool_analysis = << >>

\* An empty view of a dataset that holds two countries and two industries.
C5_Witness ==
    /\ filtered_df = << >>
    /\ Len(countries) = 2
    /\ Len(industries) = 2
    /\ country_metrics = << >>
    /\ fig_trend[1].x = << >>

\* The radar example of the specification: categories [A,B,C,D] and the
\* row (10,20,30,40).
RadarExampleRow ==
    ("Industry" :> "Media") @@
    ("AI Adoption Rate (%)" :> Num(10)) @@
    ("Job Loss Due to AI (%)" :> Num(20)) @@
    ("Revenue Increase Due to AI (%)" :> Num(30)) @@
    ("Human-AI Collaboration Rate (%)" :> Num(40))

\* C6: the radar chart has one trace per industry row; its values are the
\* row's four means in the category order followed by the first again, and
\* its labels the four categories followed by the first again.
C6_RadarClosed ==
    /\ Len(fig_industry) = Len(industry_metrics)
    /\ \A i \in 1..Len(fig_industry) :
          /\ Len(fig_industry[i].r) = 5
          /\ fig_industry[i].r[1] =
                 industry_metrics[i].row["AI Adoption Rate (%)"]
          /\ fig_industry[i].r[2] =
                 industry_metrics[i].row["Job Loss Due to AI (%)"]
          /\ fig_industry[i].r[3] =
                 industry_metrics[i].row["Revenue Increase Due to AI (%)"]
          /\ fig_industry[i].r[4] =
                 industry_metrics[i].row["Human-AI Collaboration Rate (%)"]
          /\ fig_industry[i].r[5] = fig_industry[i].r[1]
          /\ fig_industry[i].theta =
                 << "AI Adoption Rate (%)", "Job Loss Due to AI (%)",
                    "Revenue Increase Due to AI (%)",
                    "Human-AI Collaboration Rate (%)",
                    "AI Adoption Rate (%)" >>
    /\ RadarTrace(RadarExampleRow).r =
           << Num(10), Num(20), Num(30), Num(40), Num(10) >>

\* Two industry rows, each with a first mean that differs from its last.
C6_Witness ==
    /\ Len(fig_industry) = 2
    /\ \A i \in 1..2 : fig_industry[i].r[5] # fig_industry[i].r[4]

\* C7: a year range with min > max gives an empty view; the bounds are not
\* swapped.
C7_InvertedRangeEmpty ==
    year_range[1] > year_range[2] => filtered_df = << >>

\* An inverted range over a dataset holding both years, nothing else
\* excluding a row.
C7_Witness ==
    /\ year_range = << 2021, 2020 >>
    /\ Unique(Column(df, "Year")) = { 2020, 2021 }
    /\ selected_countries = CountryUniverse
    /\ selected_industries = IndustryUniverse
    /\ selected_tools = ToolUniverse
    /\ selected_reg = RegUniverse
    /\ filtered_df = << >>

\* The metric has the same value in every record of the view.
ZeroVariance(m) == Cardinality(Unique(Column(filtered_df, m))) <= 1

CorrOne == [nan |-> FALSE, sgn |-> 1, num |-> 1, den |-> 1]

\* C8: the correlation matrix is symmetric, its diagonal is 1.0 wherever
\* defined, and a cell is undefined (NaN, not 0) when one of its metrics
\* has zero variance in the view or the view has fewer than 2 records.
C8_Correlation ==
    /\ \A m1, m2 \in AllMetrics : corr_matrix[m1][m2] = corr_matrix[m2][m1]
    /\ \A m \in AllMetrics :
          ~corr_matrix[m][m].nan => corr_matrix[m][m] = CorrOne
    /\ \A m1, m2 \in AllMetrics :
          (ZeroVariance(m1) \/ ZeroVariance(m2) \/ Len(filtered_df) < 2)
             => corr_matrix[m1][m2].nan

\* A view of two or more records in which job loss is constant and the
\* other metrics vary: defined and undefined cells side by side.
C8_Witness ==
    /\ Len(filtered_df) >= 2
    /\ ZeroVariance("Job Loss Due to AI (%)")
    /\ corr_matrix["Job Loss Due to AI (%)"]["AI Adoption Rate (%)"].nan
    /\ corr_matrix["AI Adoption Rate (%)"]["AI Adoption Rate (%)"] = CorrOne
    /\ ~corr_matrix["AI Adoption Rate (%)"]
                   ["Human-AI Collaboration Rate (%)"].nan

\* C9: in every state the view and everything derived from it are what one
\* pass over the dataset under the current criteria gives.
C9_FreshPass ==
    /\ filtered_df = SelectSeq(df, LAMBDA e : Matches(e.row))
    /\ data_explorer = filtered_df
    /\ metric_cards = MetricCards(filtered_df)
    /\ fig_trend = FigTrend(filtered_df)
    /\ country_metrics = CountryMetrics(filtered_df)
    /\ industry_metrics = IndustryMetrics(filtered_df)
    /\ fig_industry = FigIndustry(industry_metrics)
    /\ corr_matrix = CorrMatrix(filtered_df)
    /\ tool_analysis = ToolAnalysis(filtered_df)

\* A state that only filter changes lead to (the first run leaves the whole
\* year range selected): a narrowed year range over three rows, two of
\* which, of different countries, are in the view.
C9_Witness ==
    /\ Len(df) = 3
    /\ year_range # year_slider
    /\ selected_countries = SeqRange(countries)
    /\ Len(countries) = 2
    /\ Len(filtered_df) = 2
    /\ filtered_df[1].row["Country"] # filtered_df[2].row["Country"]

\* C10: no run changes the loaded dataset, the cache that holds it, the
\* options offered by the multiselects or the slider's bounds.
C10_DatasetUnchanged ==
    [][/\ df' = df
       /\ load_data_cache' = load_data_cache
       /\ countries' = countries
       /\ industries' = industries
       /\ tools' = tools
       /\ reg_status' = reg_status
       /\ year_slider' = year_slider]_vars

\* A three-row dataset after runs that narrowed the view to one row.
C10_Witness ==
    /\ Len(df) = 3
    /\ df = load_data_cache
    /\ Len(filtered_df) = 1
    /\ year_range # year_slider
    /\ selected_countries # SeqRange(countries)

====
